---- MODULE Spec2Model ----
(***************************************************************************)
(* The route-construction engine of src/app.py: run_vrptw (the greedy,     *)
(* refill-aware dispatch simulation), build_matrices (the distance matrix) *)
(* and get_osrm_distance_time (the remote estimate with its haversine      *)
(* fallback).                                                              *)
(*                                                                         *)
(* Units: distances are whole kilometres, quantities whole kilograms and   *)
(* instants and durations whole seconds (the code keeps minutes as floats  *)
(* and turns them into timedelta values; every duration the model computes *)
(* is a whole number of seconds, so no rounding is introduced).            *)
(***************************************************************************)
EXTENDS Integers, Sequences, FiniteSets, TLC

(***************************************************************************)
(* Bounds of the model.                                                    *)
(***************************************************************************)
MaxCap == 2
MaxDemand == 2

\* the lengths of the vehicle list and of the demand list
VehicleCounts == {1, 2}
DemandCounts == {1, 2}

\* the supply location and the city names a demand line can carry (a demand
\* line may name the supply location itself, and two lines may name one city)
depot == "S"
CityNames == {"S", "A", "B"}

\* road distances (km) an estimate can return
Distances == {0, 2}

\* the road distances (km) of the refill scenario
PositiveDistances == {2, 5}

\* what a remote response that is "Ok" can carry: metres and seconds
OsrmDistances == {0, 3000}
OsrmDurations == {0, 120}

\* start instants, seconds after midnight: the i-th vehicle line starts at
\* 08:00 plus (i - 1) half hours
StartOf(i) == 28800 + 1800 * (i - 1)

\* the longest route the model follows: a vehicle of positive capacity makes
\* at most one delivery per kilogram declared, one refill before each and the
\* closing leg, so only a route that never ends meets this bound
LegCap == 2 * MaxDemand * 2 + 2

\* great-circle distances (km) between two distinct coordinates
GreatCircleKm == {10, 110}

(***************************************************************************)
(* Program constants.                                                      *)
(***************************************************************************)
SPEED_KMPH == 60
UNLOAD_MIN_PER_100KG == 30
SecondsPerMinute == 60
FallbackSpeedKmph == 50

VARIABLES
    vehicles,         \* the vehicle list: records [id, capacity, start]
    demands,          \* the demand list: records [city, demand]
    distance_matrix,  \* D, indexed by position in cities
    demands_copy,     \* city -> remaining quantity
    solution,         \* vehicle id -> route
    simulated,        \* ids of the vehicles simulate_vehicle was called for
    vi,               \* position of run_vrptw's loop in the vehicle list
    pc,               \* "for_vehicles", "simulate" or "done"
    time_var, location, capacity, route,   \* simulate_vehicle's locals
    ci,               \* position of simulate_vehicle's loop in demand_cities
    o_pc,             \* get_osrm_distance_time: "off", "loop", "fallback", "returned"
    o_gc,             \* the great-circle distance (km) of its two coordinates
    attempt,          \* its loop variable
    outcomes,         \* the outcomes of the remote requests it has made, in order
    sleeps,           \* the number of time.sleep(2) calls it has made
    o_result          \* the value it returns: <<km, seconds>>

vars == <<vehicles, demands, distance_matrix, demands_copy, solution, simulated,
          vi, pc, time_var, location, capacity, route, ci,
          o_pc, o_gc, attempt, outcomes, sleeps, o_result>>

run_vars == <<vehicles, demands, distance_matrix, demands_copy, solution, simulated,
              vi, pc, time_var, location, capacity, route, ci>>

oracle_vars == <<o_pc, o_gc, attempt, outcomes, sleeps, o_result>>

inputs == <<vehicles, demands, distance_matrix>>

(***************************************************************************)
(* Helpers.                                                                *)
(***************************************************************************)
Min(a, b) == IF a <= b THEN a ELSE b

RECURSIVE SumSeq(_)
SumSeq(s) == IF s = <<>> THEN 0 ELSE Head(s) + SumSeq(Tail(s))

\* list.index: the first position of x in s
Index(s, x) == CHOOSE i \in 1..Len(s) : s[i] = x /\ \A j \in 1..(i - 1) : s[j] # x

\* cities = [supply_location] + [d['city'] for d in demands]
cities == <<depot>> \o [i \in 1..Len(demands) |-> demands[i].city]

\* the keys of the dict built from the demand list, in insertion order: a
\* repeated city keeps the place of its first line
RECURSIVE Keys(_, _)
Keys(ds, seen) ==
    IF ds = <<>> THEN <<>>
    ELSE IF Head(ds).city \in seen THEN Keys(Tail(ds), seen)
    ELSE <<Head(ds).city>> \o Keys(Tail(ds), seen \cup {Head(ds).city})

demand_cities == Keys(demands, {})

\* the value the dict comprehension leaves for a city: that of its last line
LastDemand(ds, c) ==
    ds[CHOOSE i \in 1..Len(ds) :
          ds[i].city = c /\ \A j \in (i + 1)..Len(ds) : ds[j].city # c].demand

InitialDemandsCopy(ds) ==
    [c \in {ds[i].city : i \in 1..Len(ds)} |-> LastDemand(ds, c)]

\* the matrix read with its two indices exchanged
dist_between_transposed(a, b) == distance_matrix[Index(cities, b)][Index(cities, a)]

\* distance_matrix[i][j] for i, j = cities.index(a), cities.index(b)
dist_between(a, b) == distance_matrix[Index(cities, a)][Index(cities, b)]

\* the travel time taken at the fallback's speed instead of SPEED_KMPH
travel_time_at_fallback_speed(a, b) ==
    (dist_between(a, b) * 60 * SecondsPerMinute) \div FallbackSpeedKmph

\* (distance_matrix[i][j] / SPEED_KMPH) * 60 minutes, in seconds
travel_time_minutes(a, b) ==
    (dist_between(a, b) * 60 * SecondsPerMinute) \div SPEED_KMPH

\* the unload time taken per kg instead of per 100 kg
UnloadTimePerKg(deliver) == deliver * UNLOAD_MIN_PER_100KG * SecondsPerMinute

\* (deliver / 100) * UNLOAD_MIN_PER_100KG minutes, in seconds
UnloadTime(deliver) == (deliver * UNLOAD_MIN_PER_100KG * SecondsPerMinute) \div 100

\* the delivery taken without the min: the whole remaining quantity, or the
\* whole remaining capacity
DeliverAmountIgnoringCapacity(cap, remaining) == remaining
DeliverAmountIgnoringDemand(cap, remaining) == cap

\* deliver = min(capacity, demands[city]['remaining'])
DeliverAmount(cap, remaining) == Min(cap, remaining)

\* the test of line 128 taken on the first demand city alone, and not taken
AnyRemainingFirstCity == demands_copy[demand_cities[1]] > 0
AnyRemainingIgnored == TRUE

\* any(d['remaining'] > 0 for d in demands_copy.values())
AnyRemaining == \E c \in DOMAIN demands_copy : demands_copy[c] > 0

\* the comparison taken without the depot -> city term on its left side
RefillIfDepotNotFarther(loc, city) ==
    travel_time_minutes(loc, depot) <= travel_time_minutes(depot, city)

\* refill_time <= new_vehicle_time
RefillWorthwhile(loc, city) ==
    travel_time_minutes(loc, depot) + travel_time_minutes(depot, city)
        <= travel_time_minutes(depot, city)

Leg(from, to, depart, arrive, deliver, unload) ==
    [from |-> from, to |-> to, depart |-> depart, arrive |-> arrive,
     deliver |-> deliver, unload |-> unload, distance |-> dist_between(from, to)]

(***************************************************************************)
(* The haversine fallback and the matrix it yields.                        *)
(***************************************************************************)
\* haversine_distance, from the great-circle distance r * c of the two
\* coordinates: <<distance_km * 1.3, (distance_km * 1.3 / 50) * 60 minutes>>
haversine_distance(gc) ==
    <<(gc * 13) \div 10,
      (((gc * 13) \div 10) * 60 * SecondsPerMinute) \div FallbackSpeedKmph>>

\* build_matrices: D is zero on the diagonal and holds the first component
\* of the estimate elsewhere; the estimated duration is dropped
build_matrices(cs, est) ==
    [i \in 1..Len(cs) |-> [j \in 1..Len(cs) |->
        IF i = j THEN 0 ELSE est[<<cs[i], cs[j]>>][1]]]

(***************************************************************************)
(* Inputs.                                                                 *)
(***************************************************************************)
VehicleLists(caps) ==
    UNION {{[i \in 1..n |-> [id |-> i, capacity |-> cs[i], start |-> StartOf(i)]] :
               cs \in [1..n -> caps]} :
           n \in VehicleCounts}

DemandLists ==
    UNION {[1..n -> [city : CityNames, demand : 1..MaxDemand]] : n \in DemandCounts}

\* estimates for a list of cities: one name has one coordinate, so the
\* estimate between two positions of the same name is <<0, 0>>
Estimates(cs, dists) ==
    LET names == {cs[i] : i \in 1..Len(cs)}
        pairs == {p \in names \X names : p[1] # p[2]}
    IN  {[p \in names \X names |->
            IF p[1] = p[2] THEN <<0, 0>> ELSE <<f[p], 0>>] :
         f \in [pairs -> dists]}

OracleOff ==
    /\ o_pc = "off"
    /\ o_gc = 0
    /\ attempt = 0
    /\ outcomes = <<>>
    /\ sleeps = 0
    /\ o_result = <<>>

InitRun ==
    /\ OracleOff
    /\ demands_copy = InitialDemandsCopy(demands)
    /\ solution = <<>>
    /\ simulated = {}
    /\ vi = 1
    /\ pc = "for_vehicles"
    /\ time_var = 0
    /\ location = depot
    /\ capacity = 0
    /\ route = <<>>
    /\ ci = 1

InitGeneral ==
    /\ vehicles \in VehicleLists(0..MaxCap)
    /\ demands \in DemandLists
    /\ \E est \in Estimates(cities, Distances) :
          distance_matrix = build_matrices(cities, est)
    /\ InitRun

\* the matrix build_matrices yields when every remote request fails: each
\* entry is the haversine fallback for the great-circle distance gc
FallbackEstimates(cs, gc) ==
    [p \in {cs[i] : i \in 1..Len(cs)} \X {cs[i] : i \in 1..Len(cs)} |->
        IF p[1] = p[2] THEN <<0, 0>> ELSE haversine_distance(gc)]

\* one demand of 50 at one city, one vehicle of capacity 1000, the remote
\* service disabled
InitFallbackScenario ==
    /\ vehicles = <<[id |-> 1, capacity |-> 1000, start |-> StartOf(1)]>>
    /\ demands = <<[city |-> "A", demand |-> 50]>>
    /\ \E gc \in GreatCircleKm :
          distance_matrix = build_matrices(cities, FallbackEstimates(cities, gc))
    /\ InitRun

\* one demand of 1000 at one city at positive distance from the supply
\* location, vehicles of capacity 10
InitRefillScenario ==
    /\ vehicles \in VehicleLists({10})
    /\ demands = <<[city |-> "A", demand |-> 1000]>>
    /\ \E est \in Estimates(cities, PositiveDistances) :
          distance_matrix = build_matrices(cities, est)
    /\ InitRun

Init == InitGeneral \/ InitFallbackScenario \/ InitRefillScenario

(***************************************************************************)
(* run_vrptw.                                                              *)
(***************************************************************************)
city == demand_cities[ci]

\* for v in vehicles: if any(remaining > 0): simulate_vehicle(v, demands_copy)
StartVehicle ==
    /\ pc = "for_vehicles"
    /\ vi <= Len(vehicles)
    /\ AnyRemaining
    /\ time_var' = vehicles[vi].start
    /\ location' = depot
    /\ capacity' = vehicles[vi].capacity
    /\ route' = <<>>
    /\ ci' = 1
    /\ simulated' = simulated \cup {vehicles[vi].id}
    /\ pc' = "simulate"
    /\ UNCHANGED <<oracle_vars, inputs, demands_copy, solution, vi>>

SkipVehicle ==
    /\ pc = "for_vehicles"
    /\ vi <= Len(vehicles)
    /\ ~AnyRemaining
    /\ vi' = vi + 1
    /\ UNCHANGED <<oracle_vars, inputs, demands_copy, solution, simulated, pc,
                   time_var, location, capacity, route, ci>>

ReturnSolution ==
    /\ pc = "for_vehicles"
    /\ vi > Len(vehicles)
    /\ pc' = "done"
    /\ UNCHANGED <<oracle_vars, inputs, demands_copy, solution, simulated, vi,
                   time_var, location, capacity, route, ci>>

InLoop == pc = "simulate" /\ ci <= Len(demand_cities)

Deliver ==
    /\ InLoop
    /\ demands_copy[city] > 0
    /\ capacity > 0
    /\ LET arrive == time_var + travel_time_minutes(location, city)
           deliver == DeliverAmount(capacity, demands_copy[city])
           unload == UnloadTime(deliver)
       IN  /\ route' = Append(route, Leg(location, city, time_var, arrive, deliver, unload))
           /\ time_var' = arrive + unload
           /\ demands_copy' = [demands_copy EXCEPT ![city] = @ - deliver]
           /\ capacity' = capacity - deliver
           /\ location' = city
    /\ UNCHANGED <<oracle_vars, inputs, solution, simulated, vi, pc, ci>>

\* the else branch with refill_time <= new_vehicle_time: the return leg to the
\* supply location, capacity back to the vehicle's own
Refill ==
    /\ InLoop
    /\ demands_copy[city] > 0
    /\ ~(capacity > 0)
    /\ RefillWorthwhile(location, city)
    /\ Len(route) < LegCap
    /\ LET arrive_depot == time_var + travel_time_minutes(location, depot)
       IN  /\ route' = Append(route, Leg(location, depot, time_var, arrive_depot, 0, 0))
           /\ time_var' = arrive_depot
    /\ location' = depot
    /\ capacity' = vehicles[vi].capacity
    /\ UNCHANGED <<oracle_vars, inputs, demands_copy, solution, simulated, vi, pc, ci>>

\* the else branch otherwise: break, on to the next demand city
Abandon ==
    /\ InLoop
    /\ demands_copy[city] > 0
    /\ ~(capacity > 0)
    /\ ~RefillWorthwhile(location, city)
    /\ ci' = ci + 1
    /\ UNCHANGED <<oracle_vars, inputs, demands_copy, solution, simulated, vi, pc,
                   time_var, location, capacity, route>>

\* the while condition is false: on to the next demand city
NextCity ==
    /\ InLoop
    /\ ~(demands_copy[city] > 0)
    /\ ci' = ci + 1
    /\ UNCHANGED <<oracle_vars, inputs, demands_copy, solution, simulated, vi, pc,
                   time_var, location, capacity, route>>

\* the route returned without the closing leg
FinalRouteUnclosed == route

\* the route simulate_vehicle returns: the closing leg when the vehicle is
\* not at the supply location
FinalRoute ==
    IF location # depot
    THEN Append(route, Leg(location, depot, time_var,
                           time_var + travel_time_minutes(location, depot), 0, 0))
    ELSE route

\* if route: solution[v['id']] = route
Recorded(sol, id, r) == IF r # <<>> THEN (id :> r) @@ sol ELSE sol

FinishVehicle ==
    /\ pc = "simulate"
    /\ ci > Len(demand_cities)
    /\ route' = FinalRoute
    /\ solution' = Recorded(solution, vehicles[vi].id, FinalRoute)
    /\ vi' = vi + 1
    /\ pc' = "for_vehicles"
    /\ UNCHANGED <<oracle_vars, inputs, demands_copy, simulated, time_var, location, capacity, ci>>

Next ==
    \/ StartVehicle
    \/ SkipVehicle
    \/ ReturnSolution
    \/ Deliver
    \/ Refill
    \/ Abandon
    \/ NextCity
    \/ FinishVehicle

Spec == Init /\ [][Next]_vars

(***************************************************************************)
(* get_osrm_distance_time.                                                 *)
(***************************************************************************)
max_retries == 3

InitOracle ==
    /\ o_pc = "loop"
    /\ o_gc \in GreatCircleKm
    /\ attempt = 0
    /\ outcomes = <<>>
    /\ sleeps = 0
    /\ o_result = <<>>
    /\ vehicles = <<>>
    /\ demands = <<>>
    /\ distance_matrix = <<>>
    /\ demands_copy = <<>>
    /\ solution = <<>>
    /\ simulated = {}
    /\ vi = 1
    /\ pc = "off"
    /\ time_var = 0
    /\ location = depot
    /\ capacity = 0
    /\ route = <<>>
    /\ ci = 1

InAttempt == o_pc = "loop" /\ attempt < max_retries

\* the response is well formed and its code is "Ok": return its distance in
\* km and its duration (seconds / 60 minutes)
RequestOk ==
    /\ InAttempt
    /\ \E m \in OsrmDistances, d \in OsrmDurations :
          o_result' = <<m \div 1000, d>>
    /\ outcomes' = Append(outcomes, "Ok")
    /\ o_pc' = "returned"
    /\ UNCHANGED <<run_vars, o_gc, attempt, sleeps>>

\* the response is well formed and its code is not "Ok": the if fails, no
\* exception is raised, and the for loop goes on
RequestNotOk ==
    /\ InAttempt
    /\ outcomes' = Append(outcomes, "NotOk")
    /\ attempt' = attempt + 1
    /\ UNCHANGED <<run_vars, o_pc, o_gc, sleeps, o_result>>

\* requests.exceptions.Timeout or ConnectionError: sleep unless this was the
\* last attempt, then continue
RequestTimeout ==
    /\ InAttempt
    /\ \E e \in {"Timeout", "ConnectionError"} : outcomes' = Append(outcomes, e)
    /\ sleeps' = IF attempt < max_retries - 1 THEN sleeps + 1 ELSE sleeps
    /\ attempt' = attempt + 1
    /\ UNCHANGED <<run_vars, o_pc, o_gc, o_result>>

\* any other exception (a body that is not JSON, a missing key): break
RequestError ==
    /\ InAttempt
    /\ outcomes' = Append(outcomes, "Error")
    /\ o_pc' = "fallback"
    /\ UNCHANGED <<run_vars, o_gc, attempt, sleeps, o_result>>

\* after the loop: return haversine_distance(c1, c2)
ReturnFallback ==
    /\ \/ o_pc = "fallback"
       \/ o_pc = "loop" /\ ~(attempt < max_retries)
    /\ o_result' = haversine_distance(o_gc)
    /\ o_pc' = "returned"
    /\ UNCHANGED <<run_vars, o_gc, attempt, outcomes, sleeps>>

NextOracle ==
    \/ RequestOk
    \/ RequestNotOk
    \/ RequestTimeout
    \/ RequestError
    \/ ReturnFallback

SpecOracle == InitOracle /\ [][NextOracle]_vars

(***************************************************************************)
(* What the properties below read off a state.                             *)
(***************************************************************************)
\* the routes built so far, each with the vehicle it belongs to: those in
\* the plan and the one under construction
AllRoutes ==
    {<<id, solution[id]>> : id \in DOMAIN solution}
        \cup (IF pc = "simulate" THEN {<<vehicles[vi].id, route>>} ELSE {})

VehicleOf(id) == CHOOSE v \in {vehicles[i] : i \in 1..Len(vehicles)} : v.id = id

RECURSIVE SumDeliver(_, _, _)
SumDeliver(r, i, j) == IF i > j THEN 0 ELSE r[i].deliver + SumDeliver(r, i + 1, j)

RECURSIVE DeliveredIn(_, _)
DeliveredIn(r, c) ==
    IF r = <<>> THEN 0
    ELSE (IF Head(r).to = c THEN Head(r).deliver ELSE 0) + DeliveredIn(Tail(r), c)

RECURSIVE SumOver(_, _)
SumOver(f, S) ==
    IF S = {} THEN 0
    ELSE LET x == CHOOSE y \in S : TRUE IN f[x] + SumOver(f, S \ {x})

\* the quantity delivered to city c by all legs of all routes built so far
DeliveredTo(c) ==
    LET ids == {p[1] : p \in AllRoutes}
        per == [id \in ids |-> DeliveredIn((CHOOSE p \in AllRoutes : p[1] = id)[2], c)]
    IN  SumOver(per, ids)

\* the quantity declared for city c, as run_vrptw reads the demand list
Declared(c) == LastDemand(demands, c)

DemandKeys == {demands[i].city : i \in 1..Len(demands)}

TotalCapacity == SumSeq([i \in 1..Len(vehicles) |-> vehicles[i].capacity])
TotalDeclared == SumOver([c \in DemandKeys |-> Declared(c)], DemandKeys)

MatrixKm(a, b) == distance_matrix[Index(cities, a)][Index(cities, b)]

(***************************************************************************)
(* C1: a vehicle's remaining capacity stays within 0..C, C its declared    *)
(* capacity, at every point of its simulation; so the delivery legs of any *)
(* stretch of its route that holds no refill or return leg deliver at most *)
(* C in total.                                                             *)
(***************************************************************************)
C1_CapacityWithinDeclared ==
    /\ pc = "simulate" =>
          /\ capacity >= 0
          /\ capacity <= vehicles[vi].capacity
    /\ \A p \in AllRoutes :
          \A i, j \in 1..Len(p[2]) :
             (i <= j /\ \A k \in i..j : p[2][k].deliver > 0)
                => SumDeliver(p[2], i, j) <= VehicleOf(p[1]).capacity

\* a vehicle used its whole capacity over two deliveries, refilled and
\* delivered again
C1_Witness ==
    \E id \in DOMAIN solution :
       LET r == solution[id] IN
       \E j \in 2..(Len(r) - 2) :
          /\ r[j - 1].deliver > 0
          /\ r[j].deliver > 0
          /\ r[j - 1].deliver + r[j].deliver = VehicleOf(id).capacity
          /\ r[j + 1].deliver = 0
          /\ r[j + 2].deliver > 0

(***************************************************************************)
(* C2: the remaining quantity of every demand never increases and is never *)
(* negative, and the legs of all vehicles that go to the demand's city     *)
(* never deliver more in total than the quantity declared for it.          *)
(***************************************************************************)
C2_RemainingState ==
    \A c \in DOMAIN demands_copy :
       /\ demands_copy[c] >= 0
       /\ DeliveredTo(c) <= Declared(c)

C2_RemainingStep ==
    \A c \in DOMAIN demands_copy : demands_copy'[c] <= demands_copy[c]

C4_LegTimestamps ==
    \A p \in AllRoutes :
       LET r == p[2] IN
       /\ r # <<>> => r[1].depart = VehicleOf(p[1]).start
       /\ \A i \in 1..Len(r) :
             /\ r[i].arrive = r[i].depart + 60 * MatrixKm(r[i].from, r[i].to)
             /\ r[i].depart <= r[i].arrive
             /\ i < Len(r) =>
                   /\ r[i + 1].depart = r[i].arrive + r[i].unload
                   /\ r[i].arrive <= r[i + 1].depart

\* a route of the plan with a delivery that took time to reach and to
\* unload, followed by at least two more legs
C4_Witness ==
    \E id \in DOMAIN solution :
       LET r == solution[id] IN
       /\ Len(r) >= 3
       /\ r[1].arrive > r[1].depart
       /\ r[2].depart > r[1].arrive
       /\ r[3].arrive > r[3].depart

(***************************************************************************)
(* C5: the last leg of every route in the plan ends at the supply          *)
(* location.                                                               *)
(***************************************************************************)
C5_RouteEndsAtDepot ==
    \A id \in DOMAIN solution :
       solution[id] # <<>> => solution[id][Len(solution[id])].to = depot

\* a route of the plan that holds a refill, and whose vehicle gave up a city
\* away from the supply location with demand left
C5_Witness ==
    \E id \in DOMAIN solution :
       LET r == solution[id] IN
       /\ \E k \in 2..(Len(r) - 1) : r[k].deliver = 0
       /\ r[Len(r)].from # depot
       /\ \E c \in DOMAIN demands_copy : demands_copy[c] > 0

(***************************************************************************)
(* C7: vehicles are simulated in input order, none once no demand has      *)
(* remaining quantity; a vehicle that was not simulated has no entry in    *)
(* the plan, and every entry of the plan has at least one leg.             *)
(***************************************************************************)
NoDemandLeft == \A c \in DOMAIN demands_copy : ~(demands_copy[c] > 0)

C7_PlanState ==
    /\ DOMAIN solution \subseteq simulated
    /\ \A id \in DOMAIN solution : Len(solution[id]) >= 1
    /\ \E n \in 0..Len(vehicles) :
          /\ simulated = {vehicles[i].id : i \in 1..n}
          /\ n <= vi
          /\ pc = "simulate" => n = vi

C7_PlanStep == NoDemandLeft => simulated' = simulated

\* C7: in every state the plan holds only simulated vehicles, each with at
\* least one leg, and the simulated vehicles are the first n of the list; and
\* no step simulates a vehicle once no demand has remaining quantity.
C7_StopsIntroducingVehicles == [](pc # "off" => C7_PlanState) /\ [][C7_PlanStep]_vars

\* run_vrptw has returned and its second vehicle was never simulated
C7_Witness ==
    /\ pc = "done"
    /\ Len(vehicles) = 2
    /\ simulated = {1}
    /\ DOMAIN solution = {1}

(***************************************************************************)
(* C8: the fallback-only scenario.                                         *)
(***************************************************************************)
FallbackScenarioInputs ==
    /\ pc # "off"
    /\ Len(vehicles) = 1
    /\ vehicles[1].capacity = 1000
    /\ demands = <<[city |-> "A", demand |-> 50]>>
    /\ distance_matrix[1][2] > 0
    /\ distance_matrix[2][1] = distance_matrix[1][2]

\* the plan of the scenario: two legs of the fallback road distance d, the
\* first delivering 50 with 15 minutes of unload
FallbackScenarioPlan(d) ==
    /\ DOMAIN solution = {1}
    /\ Len(solution[1]) = 2
    /\ LET l1 == solution[1][1]
           l2 == solution[1][2]
       IN  /\ l1.from = depot /\ l1.to = "A" /\ l1.deliver = 50
           /\ l1.unload = 15 * 60 /\ l1.distance = d
           /\ l2.from = "A" /\ l2.to = depot /\ l2.deliver = 0
           /\ l2.unload = 0 /\ l2.distance = d

Elapsed(r) == r[Len(r)].arrive - r[1].depart

\* C8 as stated: in the fallback-only scenario the plan is the two legs, and
\* the time from the first departure to the last arrival is the travel time
\* of the two legs at 50 km/h, 2 * d / 50 * 60 minutes, plus the 15 minutes
\* of unload.
C8_ElapsedAtFallbackSpeed ==
    (FallbackScenarioInputs /\ pc = "done") =>
        LET d == distance_matrix[1][2] IN
        /\ FallbackScenarioPlan(d)
        /\ Elapsed(solution[1]) = (2 * d * 60 * 60) \div 50 + 15 * 60

\* C8 as amended: in the fallback-only scenario the plan is the two legs,
\* and the time from the first departure to the last arrival is the travel
\* time of the two legs at the engine's 60 km/h, 2 * d / 60 * 60 minutes,
\* plus the 15 minutes of unload.
C8_ElapsedAtEngineSpeed ==
    (FallbackScenarioInputs /\ pc = "done") =>
        LET d == distance_matrix[1][2] IN
        /\ FallbackScenarioPlan(d)
        /\ Elapsed(solution[1]) = (2 * d * 60 * 60) \div 60 + 15 * 60

\* the scenario has run to its end, on the fallback distance of 110 km of
\* great circle
C8_Witness ==
    /\ FallbackScenarioInputs
    /\ pc = "done"
    /\ distance_matrix[1][2] = 143
    /\ DOMAIN solution = {1}

(***************************************************************************)
(* C9: simulate_vehicle terminates for every capacity, 0 included.  A loop *)
(* whose conditions read only location, capacity and the remaining         *)
(* quantities ends only if every pass that stays in it changes one of      *)
(* them: a pass that leaves all three as they were is repeated for ever.   *)
(***************************************************************************)
\* C9: every pass of the inner loop that stays in the loop changes the
\* location, the remaining capacity or a remaining quantity.
C9_EveryPassMakesProgress ==
    [][(pc = "simulate" /\ pc' = "simulate" /\ ci' = ci)
          => <<location', capacity', demands_copy'>> # <<location, capacity, demands_copy>>]_vars

\* with a positive capacity the route never reaches the length at which the
\* model stops following it
PositiveCapacityRouteBounded ==
    (pc = "simulate" /\ vehicles[vi].capacity > 0) => Len(route) < LegCap - 1

(***************************************************************************)
(* C10: the refill scenario.                                               *)
(***************************************************************************)
RefillScenarioInputs ==
    /\ pc # "off"
    /\ demands = <<[city |-> "A", demand |-> 1000]>>
    /\ \A i \in 1..Len(vehicles) : vehicles[i].capacity = 10
    /\ distance_matrix[1][2] > 0
    /\ distance_matrix[2][1] > 0

\* C10 as stated: in the scenario, a vehicle whose capacity is exhausted at
\* the city while demand remains takes the refill branch: it goes back to
\* the supply location with a new leg and has capacity 10 again.
C10_RefillsAtTheCity ==
    [][(/\ RefillScenarioInputs
        /\ pc = "simulate"
        /\ ci = 1
        /\ location = "A"
        /\ capacity = 0
        /\ demands_copy["A"] > 0)
          => (/\ location' = depot
              /\ capacity' = 10
              /\ Len(route') = Len(route) + 1
              /\ ci' = ci)]_vars

\* C10 as amended: in the scenario the way back to the supply location has
\* a positive travel time, so the round trip via the supply location costs
\* more than the direct trip, and a vehicle whose capacity is exhausted at
\* the city abandons it: every vehicle delivers 10 once and never refills,
\* its route is the delivery leg and the closing return leg, and what it
\* leaves is carried to the next vehicle, 1000 - 10 * n after n vehicles.
C10_AbandonsAfterOneDelivery ==
    RefillScenarioInputs =>
        /\ \A p \in AllRoutes :
              LET r == p[2] IN
              /\ Len(r) <= 2
              /\ Len(r) >= 1 => r[1].from = depot /\ r[1].to = "A" /\ r[1].deliver = 10
              /\ Len(r) = 2 => r[2].from = "A" /\ r[2].to = depot /\ r[2].deliver = 0
        /\ \A id \in DOMAIN solution : Len(solution[id]) = 2
        /\ pc = "for_vehicles" => demands_copy["A"] = 1000 - 10 * (vi - 1)
        /\ pc = "done" => /\ demands_copy["A"] = 1000 - 10 * Len(vehicles)
                          /\ DOMAIN solution = 1..Len(vehicles)

\* the scenario has run to its end with two vehicles
C10_Witness ==
    /\ RefillScenarioInputs
    /\ pc = "done"
    /\ Len(vehicles) = 2
    /\ demands_copy["A"] = 980

(***************************************************************************)
(* C6: get_osrm_distance_time makes at most 3 remote requests, makes a     *)
(* further one only after a timeout or a connection failure, goes to the   *)
(* haversine fallback after any other failed request, and always returns a *)
(* (distance, duration) value.                                             *)
(***************************************************************************)
\* C6: at most 3 requests, every request that is followed by another one
\* ended in a timeout or a connection failure, and the call returns a pair,
\* the fallback's unless its last request was "Ok".
C6_RetryOnlyAfterTimeout ==
    pc = "off" =>
        /\ Len(outcomes) <= 3
        /\ \A i \in 1..(Len(outcomes) - 1) :
              outcomes[i] \in {"Timeout", "ConnectionError"}
        /\ o_pc = "returned" =>
              /\ o_result \in Int \X Int
              /\ outcomes[Len(outcomes)] # "Ok" => o_result = haversine_distance(o_gc)

\* what does hold of it: at most max_retries requests, a sleep only after a
\* timeout or connection failure that is not the last attempt, and a value
\* at the return, the fallback's unless the last request was "Ok"
OracleAlwaysReturnsValue ==
    pc = "off" =>
        /\ Len(outcomes) <= 3
        /\ Len(outcomes) = attempt + (IF o_pc \in {"fallback", "returned"}
                                         /\ outcomes # <<>>
                                         /\ outcomes[Len(outcomes)] \in {"Ok", "Error"}
                                      THEN 1 ELSE 0)
        /\ sleeps <= 2
        /\ \A i \in 1..(Len(outcomes) - 1) : outcomes[i] \notin {"Ok", "Error"}
        /\ o_pc = "returned" =>
              /\ o_result \in Int \X Int
              /\ (outcomes = <<>> \/ outcomes[Len(outcomes)] # "Ok")
                    => o_result = haversine_distance(o_gc)

====
